---- MODULE Spec2Model ----
(***************************************************************************)
(* AT89S52 buzzer controller (src/code/AT89S52-Buzzer1.c).                 *)
(*                                                                         *)
(* The main flow is the loop of main(): it polls the four buttons in the   *)
(* order Power, Pattern, Speed, Range and then, when the device is on,     *)
(* calls generate_tone and update_sweep.  pc is the position of the main   *)
(* flow; a checkButton_* call is two steps, the first read of the pin and  *)
(* the re-read after delay_ms(20), because the timer interrupt and the     *)
(* pin level can change during the wait.  Bits are the integers 0 and 1,   *)
(* as __bit is in the source.  The pin levels are inputs (\E), not state.  *)
(***************************************************************************)
EXTENDS Integers, FiniteSets

(* ---- bounds of the model ---- *)
\* update_sweep calls explored in the whole-program specification Spec; the
\* exploration ends when that many calls are made and the device is off
MaxTicks == 2
\* update_sweep calls explored in the run specification SpecRun
MaxRunTicks == 60
\* buttons the operator holds down at the same time
MaxHeld == 1
\* timer interrupts counted while the whole-program specification is on
MaxIsr == 1
\* update_sweep calls explored in the long-run specification SpecLong: one whole
\* Pulse cycle of 500 calls and one whole Chirps pause
MaxLongTicks == 510
\* update_sweep calls explored in SpecWalk, and the number of first calls during
\* which its operator still presses buttons
MaxWalkTicks == 25
MaxLate == 2

(* ---- program constants ---- *)
NumPatterns == 11
NumSpeeds == 5
PulseCycle == 500
PulseHigh == 50
StepTicks == 100
HbCycle == 600
HbBeat1End == 100
HbPause1End == 150
HbBeat2End == 250
SirenTicks == 100
ChirpPause == 300
WalkTicks == 20
BlinkCount == 100
RandMul == 1103515245
RandInc == 12345
RandMod == 32768
RandChance == 20
SeedInit == 12345

Word == 65536
U16(x) == x % Word
U8(x) == x % 256
Not(b) == 1 - b

Buttons == {"PWR", "PAT", "SPD", "RNG"}

\* const uint16_t rangeParams[2][3]: [min, max, initial]
rangeParams == << <<25, 50, 37>>, <<9, 18, 13>> >>
RangeMin(r) == rangeParams[r + 1][1]
RangeMax(r) == rangeParams[r + 1][2]
RangeInit(r) == rangeParams[r + 1][3]

\* const uint8_t speedSteps[5]
speedSteps == <<1, 2, 3, 5, 8>>
Step(s) == speedSteps[s + 1]

VARIABLES
    pc,               \* position of the main flow
    current,          \* checkButton_*: local `current`, the first read of the pin
    BTN,              \* the level of the last read of the polled button pin
    ret,              \* __bit returned by the last checkButton_* call
    lastState,        \* checkButton_*: static lastState, per button
    isActive, currentRange, currentPattern, currentSpeed, sweepDirection,
    currentFreqDelay,
    toneCounter,      \* generate_tone: static toneCounter
    pulseCount, stepCount, freqStep, hbCount, sirenCount,
    chirpState, chirpCount, walkCount,   \* update_sweep: statics
    seed,             \* simple_rand: static seed
    BUZZER, BUZZER_COMP,   \* P3.0, P3.1
    P2,               \* port 2 pins 0..7 (pattern LEDs, SPEED_LED, RANGE_LED)
    TRIANGLE_LED,     \* P1.5
    msCount,          \* Timer0_ISR: static msCount
    nTicks            \* history: update_sweep calls made so far

btnVars == <<current, BTN, ret, lastState>>
modeVars == <<isActive, currentRange, currentPattern, currentSpeed>>
sweepVars == <<sweepDirection, currentFreqDelay, pulseCount, stepCount, freqStep,
               hbCount, sirenCount, chirpState, chirpCount, walkCount, seed>>
ledVars == <<P2, TRIANGLE_LED>>
vars == <<pc, btnVars, modeVars, sweepVars, toneCounter, BUZZER, BUZZER_COMP,
          ledVars, msCount, nTicks>>

(* ---- simple_rand (lines 116-120) ---- *)
\* seed * 1103515245 + 12345 is computed in 32-bit signed long: the 16-bit halves
\* of the wrapped result.  lo carries into hi.
RandLo(sd) == sd * (RandMul % Word) + RandInc
RandHi(sd) == U16((RandLo(sd) \div Word) + sd * (RandMul \div Word))
\* The product overflows signed long (undefined behaviour).  A build that wraps
\* and takes the C remainder of the negative value (wrap = TRUE) stores
\* 65536 + remainder in the uint16_t seed; a build that reduces with a mask,
\* assuming no overflow (wrap = FALSE), stores the low 15 bits.
simple_rand_seed(sd, wrap) ==
    LET low == RandLo(sd) % RandMod
        negative == RandHi(sd) >= Word \div 2
    IN  IF wrap /\ negative /\ low # 0 THEN (Word - RandMod) + low ELSE low
\* the new seed and the returned byte
simple_rand(sd, wrap) ==
    LET s2 == simple_rand_seed(sd, wrap)
    IN  [seed |-> s2, val |-> s2 % 256]

(* ---- updateStatusLEDs (lines 96-113) ---- *)
\* The assignments in source order; STEP_LED, HEART_LED, SIREN_LED, CHIRP_LED and
\* WALK_LED are the pins of UP_LED .. PULSE_LED (lines 24-28), so the later
\* write to a pin is the one that stays.
Neq(a, b) == IF a # b THEN 1 ELSE 0
updateStatusLEDs_P2(p2, range, pat) ==
    LET a == [p2 EXCEPT ![7] = Not(range)]
        b == [a EXCEPT ![0] = Neq(pat, 0)]
        c == [b EXCEPT ![1] = Neq(pat, 1)]
        d == [c EXCEPT ![2] = Neq(pat, 2)]
        e == [d EXCEPT ![3] = Neq(pat, 3)]
        f == [e EXCEPT ![4] = Neq(pat, 4)]
        g == [f EXCEPT ![0] = Neq(pat, 5)]
        h == [g EXCEPT ![1] = Neq(pat, 7)]
        i == [h EXCEPT ![2] = Neq(pat, 8)]
        j == [i EXCEPT ![3] = Neq(pat, 9)]
    IN  [j EXCEPT ![4] = Neq(pat, 10)]
updateStatusLEDs_P1_5(pat) == Neq(pat, 6)

(* ---- generate_tone (lines 176-183) ---- *)
ToneFires_Strict(tc, delay) == U16(tc + 1) > delay
ToneFires(tc, delay) == U16(tc + 1) >= delay
generate_tone(tc, delay, bz, bzc) ==
    IF ToneFires(tc, delay)
    THEN [toneCounter |-> 0, BUZZER |-> Not(bz), BUZZER_COMP |-> Not(bzc)]
    ELSE [toneCounter |-> U16(tc + 1), BUZZER |-> bz, BUZZER_COMP |-> bzc]

(* ---- update_sweep (lines 186-296): the rule of each pattern ---- *)
\* case 0
UpSweep_Inclusive(p, mn, mx, st) == IF p >= mn THEN U16(p - st) ELSE mx
UpSweep_ResetMin(p, mn, mx, st) == IF p > mn THEN U16(p - st) ELSE mn
UpSweep(p, mn, mx, st) == IF p > mn THEN U16(p - st) ELSE mx
\* case 1
DownSweep(p, mn, mx, st) == IF p < mx THEN U16(p + st) ELSE mn
\* case 2
ZigZag(p, dir, mn, mx, st) ==
    IF dir = 1
    THEN IF p < mx THEN [p |-> U16(p + st), dir |-> 1] ELSE [p |-> p, dir |-> 0]
    ELSE IF p > mn THEN [p |-> U16(p - st), dir |-> 0] ELSE [p |-> p, dir |-> 1]
\* case 3: one draw, and a second one when the first is below 20
RandomPat(p, sd, mn, mx, w) ==
    LET r1 == simple_rand(sd, w[1])
        r2 == simple_rand(r1.seed, w[2])
    IN  IF r1.val < RandChance
        THEN [p |-> mn + (r2.val % (mx - mn + 1)), seed |-> r2.seed]
        ELSE [p |-> p, seed |-> r1.seed]
\* case 4
PulseCountNext_Stuck(c) == c
PulseCountNext(c) == IF U16(c + 1) >= PulseCycle THEN 0 ELSE U16(c + 1)
PulseLevel_Inclusive(c) == IF c <= PulseHigh THEN 1 ELSE 0
PulseLevel(c) == IF c < PulseHigh THEN 1 ELSE 0
\* case 5: the sum is unsigned 16-bit
Stepped(p, cnt, mn, mx, st) ==
    IF U16(cnt + 1) >= StepTicks
    THEN [p |-> mn + (U16(p + st - mn) % (mx - mn + 1)), cnt |-> 0]
    ELSE [p |-> p, cnt |-> U16(cnt + 1)]
\* case 6
Triangle(p, fs, mn, mx, st) ==
    LET q == U16(p + fs * st)
    IN  [p |-> q, fs |-> IF q <= mn \/ q >= mx THEN -fs ELSE fs]
\* case 7
HbCountNext(c) == IF U16(c + 1) >= HbCycle THEN 0 ELSE U16(c + 1)
Heartbeat(c, mn, mx) ==
    IF c < HbBeat1End THEN mn + 2
    ELSE IF c < HbPause1End THEN mx
    ELSE IF c < HbBeat2End THEN mn + 1
    ELSE mx
\* case 8
Siren(p, cnt, mn, mx) ==
    IF U16(cnt + 1) >= SirenTicks
    THEN [p |-> IF p = mn THEN mx ELSE mn, cnt |-> 0]
    ELSE [p |-> p, cnt |-> U16(cnt + 1)]
\* case 9: chirpCount is incremented only in the pause state
Chirps(p, cs, cc, mn, mx, st) ==
    IF cs = 0
    THEN IF p > mn THEN [p |-> U16(p - st * 3), cs |-> 0, cc |-> cc]
                   ELSE [p |-> p, cs |-> 1, cc |-> cc]
    ELSE IF U16(cc + 1) > ChirpPause
         THEN [p |-> mx, cs |-> 0, cc |-> 0]
         ELSE [p |-> p, cs |-> cs, cc |-> U16(cc + 1)]
\* case 10: the signed step is added in unsigned 16-bit, then the two clamps
WalkClamp_NoUpper(q, mn, mx) == IF q < mn THEN mn ELSE q
WalkClamp(q, mn, mx) ==
    LET a == IF q < mn THEN mn ELSE q
    IN  IF a > mx THEN mx ELSE a
RandomWalk(p, cnt, sd, mn, mx, w) ==
    LET r == simple_rand(sd, w[1])
    IN  IF U16(cnt + 1) >= WalkTicks
        THEN [p |-> WalkClamp(U16(p + (r.val % 5) - 2), mn, mx), cnt |-> 0,
              seed |-> r.seed]
        ELSE [p |-> p, cnt |-> U16(cnt + 1), seed |-> sd]

\* update_sweep: the statics, currentFreqDelay, sweepDirection and BUZZER after the
\* call.  bz is BUZZER as generate_tone left it; w are the outcomes of the (at
\* most two) simple_rand calls.
SweepState_NonStatic(bz) ==
    [currentFreqDelay |-> currentFreqDelay, sweepDirection |-> sweepDirection,
     pulseCount |-> 0, stepCount |-> 0, freqStep |-> 1, hbCount |-> 0,
     sirenCount |-> 0, chirpState |-> 0, chirpCount |-> 0, walkCount |-> 0,
     seed |-> seed, BUZZER |-> bz]
SweepState(bz) ==
    [currentFreqDelay |-> currentFreqDelay, sweepDirection |-> sweepDirection,
     pulseCount |-> pulseCount, stepCount |-> stepCount, freqStep |-> freqStep,
     hbCount |-> hbCount, sirenCount |-> sirenCount, chirpState |-> chirpState,
     chirpCount |-> chirpCount, walkCount |-> walkCount, seed |-> seed,
     BUZZER |-> bz]
update_sweep(s, pat, range, speed, w) ==
    LET minDelay == RangeMin(range)
        maxDelay == RangeMax(range)
        st == Step(speed)
        p == s.currentFreqDelay
    IN  CASE pat = 0 ->
               [s EXCEPT !.currentFreqDelay = UpSweep(p, minDelay, maxDelay, st)]
          [] pat = 1 ->
               [s EXCEPT !.currentFreqDelay = DownSweep(p, minDelay, maxDelay, st)]
          [] pat = 2 ->
               LET r == ZigZag(p, s.sweepDirection, minDelay, maxDelay, st)
               IN  [s EXCEPT !.currentFreqDelay = r.p, !.sweepDirection = r.dir]
          [] pat = 3 ->
               LET r == RandomPat(p, s.seed, minDelay, maxDelay, w)
               IN  [s EXCEPT !.currentFreqDelay = r.p, !.seed = r.seed]
          [] pat = 4 ->
               [s EXCEPT !.pulseCount = PulseCountNext(s.pulseCount),
                         !.BUZZER = PulseLevel(PulseCountNext(s.pulseCount))]
          [] pat = 5 ->
               LET r == Stepped(p, s.stepCount, minDelay, maxDelay, st)
               IN  [s EXCEPT !.currentFreqDelay = r.p, !.stepCount = r.cnt]
          [] pat = 6 ->
               LET r == Triangle(p, s.freqStep, minDelay, maxDelay, st)
               IN  [s EXCEPT !.currentFreqDelay = r.p, !.freqStep = r.fs]
          [] pat = 7 ->
               [s EXCEPT !.hbCount = HbCountNext(s.hbCount),
                         !.currentFreqDelay =
                             Heartbeat(HbCountNext(s.hbCount), minDelay, maxDelay)]
          [] pat = 8 ->
               LET r == Siren(p, s.sirenCount, minDelay, maxDelay)
               IN  [s EXCEPT !.currentFreqDelay = r.p, !.sirenCount = r.cnt]
          [] pat = 9 ->
               LET r == Chirps(p, s.chirpState, s.chirpCount, minDelay, maxDelay, st)
               IN  [s EXCEPT !.currentFreqDelay = r.p, !.chirpState = r.cs,
                             !.chirpCount = r.cc]
          [] pat = 10 ->
               LET r == RandomWalk(p, s.walkCount, s.seed, minDelay, maxDelay, w)
               IN  [s EXCEPT !.currentFreqDelay = r.p, !.walkCount = r.cnt,
                             !.seed = r.seed]
          [] OTHER -> s

\* The outcomes a build can give the simple_rand calls of one update_sweep call.
RandOutcomes(pat) ==
    IF pat \in {3, 10} THEN BOOLEAN \X BOOLEAN ELSE {<<TRUE, TRUE>>}

(* ---- the initial state: the statics' initialisers and main, lines 301-311 ---- *)
Init ==
    /\ pc = "PWR"
    /\ current = 1
    /\ BTN = 1
    /\ ret = 0
    /\ lastState = [b \in Buttons |-> 1]
    /\ isActive = 0
    /\ currentRange = 0
    /\ currentPattern = 0
    /\ currentSpeed = 0
    /\ sweepDirection = 0
    /\ currentFreqDelay = RangeInit(0)
    /\ toneCounter = 0
    /\ pulseCount = 0 /\ stepCount = 0 /\ freqStep = 1 /\ hbCount = 0
    /\ sirenCount = 0 /\ chirpState = 0 /\ chirpCount = 0 /\ walkCount = 0
    /\ seed = SeedInit
    /\ BUZZER = 1 /\ BUZZER_COMP = 1          \* P3 = 0xFF
    /\ P2 = updateStatusLEDs_P2([i \in 0..7 |-> 1], 0, 0)
    /\ TRIANGLE_LED = updateStatusLEDs_P1_5(0)
    /\ msCount = 0
    /\ nTicks = 0

(* ---- the pin levels the environment presents ---- *)
Held == {b \in Buttons : lastState[b] = 0}
Started == isActive = 1 \/ nTicks > 0
\* Every level (0 = pressed), with at most MaxHeld buttons down at once.
AnyLevel(b) ==
    {1} \cup (IF lastState[b] = 0 \/ Cardinality(Held) < MaxHeld THEN {0} ELSE {})
\* env.free: the operator presses any button at any time.
\* Otherwise the operator sets the device up while it is off, switches it on with
\* a pattern of env.pats selected, and presses nothing from then on (a button
\* still down stays down or is released).
\* env.late, env.btns: the operator goes on pressing the buttons of btns until
\* late update_sweep calls are made.
\* env.cap, env.stop: nTicks counts the update_sweep calls up to cap; with stop no
\* call is made beyond cap, and the main loop starts no further pass once the
\* device is off after cap calls.
EnvAny(cap) ==
    [free |-> TRUE, pats |-> 0 .. (NumPatterns - 1), btns |-> Buttons, late |-> 0,
     cap |-> cap, stop |-> TRUE]
EnvSetup(pats, cap, stop) ==
    [free |-> FALSE, pats |-> pats, btns |-> Buttons, late |-> 0, cap |-> cap,
     stop |-> stop]
EnvLate(pats, btns, late, cap) ==
    [free |-> FALSE, pats |-> pats, btns |-> btns, late |-> late, cap |-> cap,
     stop |-> TRUE]
EnvLateRun(pats, btns, late, cap) ==
    [free |-> FALSE, pats |-> pats, btns |-> btns, late |-> late, cap |-> cap,
     stop |-> FALSE]
Budget(env) == env.stop => (nTicks < env.cap \/ isActive = 1)
Raw(b, env) ==
    IF env.free THEN AnyLevel(b)
    ELSE IF Started /\ (nTicks >= env.late \/ b \notin env.btns) THEN {1, lastState[b]}
    ELSE IF ~Started /\ b = "PWR" /\ currentPattern \notin env.pats THEN {1}
    ELSE AnyLevel(b)

(* ---- checkButton_* (lines 123-173) ---- *)
\* first read: `current = BTN; if(current != lastState)` enters delay_ms(20),
\* otherwise the call returns 0
ButtonRead(b, wait, next, env) ==
    /\ pc = b
    /\ b = "PWR" => Budget(env)
    /\ \E raw \in Raw(b, env) :
         /\ BTN' = raw
         /\ current' = raw
         /\ IF raw # lastState[b]
            THEN pc' = wait /\ ret' = ret
            ELSE pc' = next /\ ret' = 0
    /\ UNCHANGED <<lastState, modeVars, sweepVars, toneCounter, BUZZER, BUZZER_COMP,
                   ledVars, msCount, nTicks>>
\* after the wait: `if(BTN == current) { lastState = current; return !current; }`
\* and `return 0` otherwise
ButtonReturn_ActiveHigh(cur, raw) == IF raw = cur THEN cur ELSE 0
ButtonReturn(cur, raw) == IF raw = cur THEN Not(cur) ELSE 0
ButtonCommit_NoRecheck(last, cur, raw) == cur
ButtonCommit(last, cur, raw) == IF raw = cur THEN cur ELSE last
ButtonWait(b, wait, next, env) ==
    /\ pc = wait
    /\ \E raw \in Raw(b, env) :
         /\ BTN' = raw
         /\ lastState' = [lastState EXCEPT ![b] = ButtonCommit(lastState[b], current, raw)]
         /\ ret' = ButtonReturn(current, raw)
    /\ current' = current
    /\ pc' = next

(* ---- main's reaction to each press (lines 316-336) ---- *)
\* `isActive = !isActive; if(!isActive) BUZZER = 0;`
PowerBuzzer_Keep(active, bz) == bz
PowerBuzzer(active, bz) == IF active = 0 THEN 0 ELSE bz
\* `if(++currentPattern >= 11) currentPattern = 0;`
PatternNext_NoWrap(pat) == U8(pat + 1)
PatternNext(pat) == IF U8(pat + 1) >= NumPatterns THEN 0 ELSE U8(pat + 1)
\* `if(++currentSpeed >= 5) currentSpeed = 0;`
SpeedNext(sp) == IF U8(sp + 1) >= NumSpeeds THEN 0 ELSE U8(sp + 1)
\* `currentRange = !currentRange; currentFreqDelay = rangeParams[currentRange][2];`
RangeDelay_OldBand(range) == RangeInit(Not(range))
RangeDelay(range) == RangeInit(range)

checkButton_PWR(env) == ButtonRead("PWR", "PWR_wait", "PAT", env)
checkButton_PWR_wait(env) ==
    /\ ButtonWait("PWR", "PWR_wait", "PAT", env)
    /\ IF ret' = 1
       THEN /\ isActive' = Not(isActive)
            /\ BUZZER' = PowerBuzzer(isActive', BUZZER)
            /\ P2' = updateStatusLEDs_P2(P2, currentRange, currentPattern)
            /\ TRIANGLE_LED' = updateStatusLEDs_P1_5(currentPattern)
       ELSE UNCHANGED <<isActive, BUZZER, ledVars>>
    /\ UNCHANGED <<currentRange, currentPattern, currentSpeed, sweepVars, toneCounter,
                   BUZZER_COMP, msCount, nTicks>>

checkButton_PAT(env) == ButtonRead("PAT", "PAT_wait", "SPD", env)
checkButton_PAT_wait(env) ==
    /\ ButtonWait("PAT", "PAT_wait", "SPD", env)
    /\ IF ret' = 1
       THEN /\ currentPattern' = PatternNext(currentPattern)
            /\ P2' = updateStatusLEDs_P2(P2, currentRange, currentPattern')
            /\ TRIANGLE_LED' = updateStatusLEDs_P1_5(currentPattern')
       ELSE UNCHANGED <<currentPattern, ledVars>>
    /\ UNCHANGED <<isActive, currentRange, currentSpeed, sweepVars, toneCounter,
                   BUZZER, BUZZER_COMP, msCount, nTicks>>

checkButton_SPD(env) == ButtonRead("SPD", "SPD_wait", "RNG", env)
checkButton_SPD_wait(env) ==
    /\ ButtonWait("SPD", "SPD_wait", "RNG", env)
    /\ IF ret' = 1
       THEN /\ currentSpeed' = SpeedNext(currentSpeed)
            /\ P2' = updateStatusLEDs_P2(P2, currentRange, currentPattern)
            /\ TRIANGLE_LED' = updateStatusLEDs_P1_5(currentPattern)
       ELSE UNCHANGED <<currentSpeed, ledVars>>
    /\ UNCHANGED <<isActive, currentRange, currentPattern, sweepVars, toneCounter,
                   BUZZER, BUZZER_COMP, msCount, nTicks>>

checkButton_RNG(env) == ButtonRead("RNG", "RNG_wait", "SOUND", env)
checkButton_RNG_wait(env) ==
    /\ ButtonWait("RNG", "RNG_wait", "SOUND", env)
    /\ IF ret' = 1
       THEN /\ currentRange' = Not(currentRange)
            /\ currentFreqDelay' = RangeDelay(currentRange')
            /\ P2' = updateStatusLEDs_P2(P2, currentRange', currentPattern)
            /\ TRIANGLE_LED' = updateStatusLEDs_P1_5(currentPattern)
       ELSE UNCHANGED <<currentRange, currentFreqDelay, ledVars>>
    /\ UNCHANGED <<isActive, currentPattern, currentSpeed, sweepDirection, pulseCount,
                   stepCount, freqStep, hbCount, sirenCount, chirpState, chirpCount,
                   walkCount, seed, toneCounter, BUZZER, BUZZER_COMP, msCount, nTicks>>

(* ---- main, lines 338-342: generate_tone and update_sweep when active ---- *)
Sound(env) ==
    /\ pc = "SOUND"
    /\ pc' = "PWR"
    /\ IF isActive = 1
       THEN /\ env.stop => nTicks < env.cap
            /\ nTicks' = IF nTicks < env.cap THEN nTicks + 1 ELSE nTicks
            /\ \E w \in RandOutcomes(currentPattern) :
                 LET g == generate_tone(toneCounter, currentFreqDelay, BUZZER, BUZZER_COMP)
                     u == update_sweep(SweepState(g.BUZZER), currentPattern,
                                       currentRange, currentSpeed, w)
                 IN  /\ toneCounter' = g.toneCounter
                     /\ BUZZER_COMP' = g.BUZZER_COMP
                     /\ BUZZER' = u.BUZZER
                     /\ currentFreqDelay' = u.currentFreqDelay
                     /\ sweepDirection' = u.sweepDirection
                     /\ pulseCount' = u.pulseCount
                     /\ stepCount' = u.stepCount
                     /\ freqStep' = u.freqStep
                     /\ hbCount' = u.hbCount
                     /\ sirenCount' = u.sirenCount
                     /\ chirpState' = u.chirpState
                     /\ chirpCount' = u.chirpCount
                     /\ walkCount' = u.walkCount
                     /\ seed' = u.seed
       ELSE UNCHANGED <<sweepVars, toneCounter, BUZZER, BUZZER_COMP, nTicks>>
    /\ UNCHANGED <<btnVars, modeVars, ledVars, msCount>>

(* ---- Timer0_ISR (lines 81-93): fires between any two main-flow steps ---- *)
Timer0_ISR_Tone(cap) ==
    /\ IF isActive = 1
       THEN /\ msCount < cap
            /\ IF U16(msCount + 1) >= BlinkCount
               THEN P2' = [P2 EXCEPT ![6] = Not(P2[6])] /\ msCount' = 0
               ELSE P2' = P2 /\ msCount' = U16(msCount + 1)
            /\ BUZZER' = Not(BUZZER)
       ELSE P2' = [P2 EXCEPT ![6] = 1] /\ msCount' = msCount /\ BUZZER' = BUZZER
    /\ UNCHANGED <<pc, btnVars, modeVars, sweepVars, toneCounter, BUZZER_COMP,
                   TRIANGLE_LED, nTicks>>
Timer0_ISR(cap) ==
    /\ IF isActive = 1
       THEN /\ msCount < cap
            /\ IF U16(msCount + 1) >= BlinkCount
               THEN P2' = [P2 EXCEPT ![6] = Not(P2[6])] /\ msCount' = 0
               ELSE P2' = P2 /\ msCount' = U16(msCount + 1)
       ELSE P2' = [P2 EXCEPT ![6] = 1] /\ msCount' = msCount
    /\ UNCHANGED <<pc, btnVars, modeVars, sweepVars, toneCounter, BUZZER, BUZZER_COMP,
                   TRIANGLE_LED, nTicks>>

\* one step of the loop of main
MainStep(env) ==
    \/ checkButton_PWR(env) \/ checkButton_PWR_wait(env)
    \/ checkButton_PAT(env) \/ checkButton_PAT_wait(env)
    \/ checkButton_SPD(env) \/ checkButton_SPD_wait(env)
    \/ checkButton_RNG(env) \/ checkButton_RNG_wait(env)
    \/ Sound(env)

\* The whole program under every button input.
Next == MainStep(EnvAny(MaxTicks)) \/ Timer0_ISR(MaxIsr)
Spec == Init /\ [][Next]_vars

\* The device set up while off, switched on and left running.
NextRun ==
    \/ MainStep(EnvSetup(0 .. (NumPatterns - 1), MaxRunTicks, TRUE))
    \/ Timer0_ISR(MaxIsr)
SpecRun == Init /\ [][NextRun]_vars

\* Zig-Zag selected, the device switched on and left running for ever: the loop of
\* main never stops, so its next step is always eventually taken.
MainZigZag == MainStep(EnvSetup({2}, MaxRunTicks, FALSE))
NextZigZag == MainZigZag \/ Timer0_ISR(MaxIsr)
SpecZigZag == Init /\ [][NextZigZag]_vars /\ WF_vars(MainZigZag)

\* Pulse or Chirps selected while off, the device switched on and left running.
NextLong == MainStep(EnvSetup({4, 9}, MaxLongTicks, TRUE)) \/ Timer0_ISR(MaxIsr)
SpecLong == Init /\ [][NextLong]_vars

\* Chirps selected while off and the device switched on; the operator presses
\* Pattern during the first MaxLate calls and then leaves the device running.
NextWalk == MainStep(EnvLate({9}, {"PAT"}, MaxLate, MaxWalkTicks)) \/ Timer0_ISR(MaxIsr)
SpecWalk == Init /\ [][NextWalk]_vars

\* Up Sweep selected while off and the device switched on; the operator goes on
\* pressing Power, and the timer interrupt fires without a bound: msCount runs
\* through its whole cycle of BlinkCount interrupts and SPEED_LED blinks.
NextIsr == MainStep(EnvLate({0}, {"PWR"}, MaxTicks + 1, MaxTicks)) \/ Timer0_ISR(BlinkCount)
SpecIsr == Init /\ [][NextIsr]_vars

\* Triangle selected while off and the device switched on; the operator presses
\* Speed or Range during the first MaxLate calls and then leaves the device
\* running for ever: the loop of main never stops.
MainTriangle == MainStep(EnvLateRun({6}, {"SPD", "RNG"}, MaxLate, MaxRunTicks))
NextTriangle == MainTriangle \/ Timer0_ISR(MaxIsr)
SpecTriangle == Init /\ [][NextTriangle]_vars /\ WF_vars(MainTriangle)

(***************************************************************************)
(* Properties of the program.                                             *)
(***************************************************************************)
minDelay == RangeMin(currentRange)
maxDelay == RangeMax(currentRange)
step == Step(currentSpeed)
WaitPc == [b \in Buttons |-> CASE b = "PWR" -> "PWR_wait" [] b = "PAT" -> "PAT_wait"
                               [] b = "SPD" -> "SPD_wait" [] b = "RNG" -> "RNG_wait"]
NextPc == [b \in Buttons |-> CASE b = "PWR" -> "PAT" [] b = "PAT" -> "SPD"
                               [] b = "SPD" -> "RNG" [] b = "RNG" -> "SOUND"]
\* this step is a call of generate_tone and update_sweep
IsTick == pc = "SOUND" /\ pc' = "PWR" /\ isActive = 1
\* this step ends the delay_ms(20) of checkButton_<b>
IsWaitEnd(b) == pc = WaitPc[b] /\ pc' = NextPc[b]
\* this step is the return of checkButton_<b>
IsReturn(b) == (pc = b \/ pc = WaitPc[b]) /\ pc' = NextPc[b]

\* C1: whenever generate_tone is about to read currentFreqDelay (the main flow is
\* at the sound step with the device on), the value lies in [min, max] of the
\* selected band.
C1_PeriodInBandWhenRead ==
    (pc = "SOUND" /\ isActive = 1) =>
        (minDelay <= currentFreqDelay /\ currentFreqDelay <= maxDelay)

\* C2: no update_sweep call wraps the 16-bit period.  Every rule moves the period
\* by at most 3 * 8 or assigns a value of the band, so a call that changes it by
\* half the 16-bit range or more has wrapped.
C2_NoWraparound ==
    [][IsTick => (currentFreqDelay' - currentFreqDelay < Word \div 2
                  /\ currentFreqDelay - currentFreqDelay' < Word \div 2)]_vars

\* C3: for each button, a level change that the re-read confirms is committed and
\* returns 1 when the new level is low and 0 when it is high; and a call returns 1
\* only when it commits a change from released to pressed, so a held button
\* returns 0 on every later poll and a second press needs a committed release.
C3_OnePressPerConfirmedChange ==
    [][\A b \in Buttons :
         /\ (IsWaitEnd(b) /\ BTN' = current) =>
                (lastState'[b] = current /\ ret' = (IF current = 0 THEN 1 ELSE 0))
         /\ IsReturn(b) => (ret' = 1 <=> (lastState[b] = 1 /\ lastState'[b] = 0))
         /\ (IsReturn(b) /\ lastState[b] = 0) => ret' = 0]_vars
\* a Pattern press was confirmed once, the button is still down and the later
\* poll has returned 0
C3_Witness ==
    /\ pc = "SPD" /\ lastState["PAT"] = 0 /\ BTN = 0 /\ current = 0 /\ ret = 0
    /\ currentPattern = 1

\* C4: for each button, when the level re-read after the wait differs from the
\* first read, the call returns 0, lastState stays as it was and the mode state
\* (power, band, pattern, speed, period, direction) is unchanged.
C4_GlitchIgnored ==
    [][\A b \in Buttons :
         (IsWaitEnd(b) /\ BTN' # current) =>
            /\ ret' = 0
            /\ lastState' = lastState
            /\ UNCHANGED <<modeVars, currentFreqDelay, sweepDirection>>]_vars
\* the Range pin was read low, re-read high: no press, band and period as before
C4_Witness ==
    /\ pc = "SOUND" /\ current = 0 /\ BTN = 1 /\ ret = 0 /\ lastState["RNG"] = 1
    /\ currentRange = 0 /\ isActive = 1 /\ nTicks > 0

\* C5: with Up Sweep selected, from period = max each update_sweep call lowers the
\* period by the step until it is at or below min, and the next call sets it to
\* max: the values max - k * step, k = 0 .. ceil((max - min) / step), follow each
\* other in a cycle of ceil((max - min) / step) + 1 calls.
CeilDiv(a, b) == (a + b - 1) \div b
C5_UpSweepSawtooth ==
    [][(IsTick /\ currentPattern = 0) =>
         LET K == CeilDiv(maxDelay - minDelay, step)
         IN  \A k \in 0 .. K :
               currentFreqDelay = maxDelay - k * step =>
                   currentFreqDelay' = IF k < K THEN maxDelay - (k + 1) * step
                                        ELSE maxDelay]_vars
\* Low band, step 1: the reset at the 14th call and one whole cycle of 26 calls
C5_Witness ==
    /\ currentPattern = 0 /\ currentRange = 0 /\ currentSpeed = 0
    /\ nTicks = 39 /\ currentFreqDelay = 50

\* C6 as stated: from the initial state (off, Low band, pattern 0, speed 0, period
\* 37) a Power press switches the device on; with these settings the period is
\* 25 after the 13th update_sweep call and 50 after the 14th.
C6_EndToEnd_Original ==
    /\ (isActive = 0 /\ currentRange = 0 /\ currentPattern = 0 /\ currentSpeed = 0
        /\ currentFreqDelay = 37)
    /\ []((currentPattern = 0 /\ currentSpeed = 0 /\ currentRange = 0) =>
            /\ nTicks = 13 => currentFreqDelay = 25
            /\ nTicks = 14 => currentFreqDelay = 50)
    /\ [][(IsWaitEnd("PWR") /\ ret' = 1 /\ isActive = 0) => isActive' = 1]_vars
\* C6 amended: the same scenario with the calls counted as the code makes them:
\* the period is 37 - n after n <= 12 update_sweep calls (25 after the 12th) and
\* 50 after the 13th.
C6_EndToEnd ==
    /\ (isActive = 0 /\ currentRange = 0 /\ currentPattern = 0 /\ currentSpeed = 0
        /\ currentFreqDelay = 37)
    /\ []((currentPattern = 0 /\ currentSpeed = 0 /\ currentRange = 0) =>
            /\ nTicks <= 12 => currentFreqDelay = 37 - nTicks
            /\ nTicks = 12 => currentFreqDelay = 25
            /\ nTicks = 13 => currentFreqDelay = 50)
    /\ [][(IsWaitEnd("PWR") /\ ret' = 1 /\ isActive = 0) => isActive' = 1]_vars
\* switched on by the press, the 13th call made
C6_Witness ==
    /\ currentPattern = 0 /\ currentSpeed = 0 /\ currentRange = 0
    /\ isActive = 1 /\ lastState["PWR"] = 0 /\ nTicks = 13 /\ currentFreqDelay = 50

\* C7: while Triangle is selected the period is never below min or above max by
\* more than the current step, and an update_sweep call that leaves the period
\* at or outside a bound flips the direction.
C7_TriangleWithinOneStep ==
    /\ [](currentPattern = 6 =>
            (currentFreqDelay >= minDelay - step /\ currentFreqDelay <= maxDelay + step))
    /\ [][(IsTick /\ currentPattern = 6
            /\ (currentFreqDelay' <= minDelay \/ currentFreqDelay' >= maxDelay))
          => freqStep' = -freqStep]_vars

\* C8: with Zig-Zag selected and the device running for ever, the period is min
\* infinitely often and max infinitely often, and sweepDirection flips to down
\* only with the period at (or past) max and to up only with it at (or past) min.
C8_ZigZagVisitsBounds ==
    /\ []((isActive = 1 /\ currentPattern = 2) => <>(currentFreqDelay = minDelay))
    /\ []((isActive = 1 /\ currentPattern = 2) => <>(currentFreqDelay = maxDelay))
    /\ [][(IsTick /\ currentPattern = 2 /\ sweepDirection' # sweepDirection) =>
            (IF sweepDirection = 1 THEN currentFreqDelay >= maxDelay
                                   ELSE currentFreqDelay <= minDelay)]_vars

\* C9: a confirmed Range press flips the band and sets the period to the new
\* band's initial value, 37 for Low and 13 for High; the period is 37 at startup;
\* Pattern and Speed presses leave the period unchanged.
C9_RangePressResetsPeriod ==
    /\ currentFreqDelay = 37
    /\ [][/\ (IsWaitEnd("RNG") /\ ret' = 1) =>
                /\ currentRange' = 1 - currentRange
                /\ currentFreqDelay' = IF currentRange' = 0 THEN 37 ELSE 13
          /\ (IsReturn("PAT") \/ IsReturn("SPD")) =>
                currentFreqDelay' = currentFreqDelay]_vars
\* a Range press to High after update_sweep calls had moved the period
C9_Witness ==
    /\ pc = "SOUND" /\ ret = 1 /\ lastState["RNG"] = 0 /\ currentRange = 1
    /\ currentFreqDelay = 13 /\ isActive = 1 /\ nTicks = 1 /\ currentSpeed = 4

\* C10: the step that switches the device off leaves BUZZER low, and while the
\* device stays off BUZZER stays low and no generate_tone or update_sweep call
\* is made (toneCounter and the call count do not move).
C10_BuzzerLowWhileOff ==
    [][/\ (isActive = 1 /\ isActive' = 0) => BUZZER' = 0
       /\ (isActive = 0 /\ isActive' = 0) =>
             /\ BUZZER = 0 => BUZZER' = 0
             /\ toneCounter' = toneCounter /\ nTicks' = nTicks
             /\ UNCHANGED <<pulseCount, stepCount, freqStep, hbCount, sirenCount,
                            chirpState, chirpCount, walkCount, seed>>]_vars
\* switched off after the Pulse pattern had driven BUZZER, then polled again
C10_Witness ==
    /\ isActive = 0 /\ BUZZER = 0 /\ nTicks > 0 /\ pulseCount > 0 /\ pc = "SOUND"
    /\ lastState["PWR"] = 0

\* C11: a confirmed Pattern press sets the pattern to (pattern + 1) mod 11 and a
\* confirmed Speed press sets the speed to (speed + 1) mod 5; in every state the
\* pattern is in 0..10, the speed in 0..4 and the band in 0..1, so the indices
\* of speedSteps and rangeParams are within the tables.
C11_IndicesInRange ==
    /\ [](/\ currentPattern \in 0 .. 10
          /\ currentSpeed + 1 \in 1 .. 5
          /\ currentRange + 1 \in 1 .. 2)
    /\ [][/\ (IsWaitEnd("PAT") /\ ret' = 1) =>
                currentPattern' = (currentPattern + 1) % 11
          /\ (IsWaitEnd("SPD") /\ ret' = 1) =>
                currentSpeed' = (currentSpeed + 1) % 5]_vars
\* the Pattern press that wraps 10 to 0, made with the speed at its last index
C11_Witness ==
    /\ pc = "SPD" /\ ret = 1 /\ lastState["PAT"] = 0 /\ currentPattern = 0
    /\ currentSpeed = 4

\* C12: simple_rand replaces seed by (seed * 1103515245 + 12345) mod 32768 and
\* returns seed mod 256, starting from 12345; the seed changes only in an
\* update_sweep call under pattern 3 or 10.  Pattern 3 draws once, and a second
\* time when the first byte is below 20, and uses the second byte for the
\* period; pattern 10 draws once on its 20th call.  32768 divides 2^15, so the
\* stated value is computed from the multiplier's low 15 bits.
LcgNext(sd) == (sd * (RandMul % RandMod) + RandInc) % RandMod
C12_RandDeterministic ==
    /\ seed = 12345
    /\ [][/\ seed' # seed => (IsTick /\ currentPattern \in {3, 10})
          /\ (IsTick /\ currentPattern = 3) =>
                LET s1 == LcgNext(seed)
                    s2 == LcgNext(s1)
                IN  IF s1 % 256 < 20
                    THEN /\ seed' = s2
                         /\ currentFreqDelay' =
                               minDelay + ((s2 % 256) % (maxDelay - minDelay + 1))
                    ELSE seed' = s1 /\ currentFreqDelay' = currentFreqDelay
          /\ (IsTick /\ currentPattern = 10) =>
                seed' = (IF walkCount + 1 >= 20 THEN LcgNext(seed) ELSE seed)]_vars

\* C13: with Pulse selected and the device on, every update_sweep call advances
\* the pulse counter modulo 500, leaves the period unchanged and leaves BUZZER
\* high exactly when the counter is below 50, so at the end of every pass of
\* the main loop BUZZER is high exactly when the counter is below 50; left
\* running from switch-on the counter is the number of calls modulo 500: high
\* for 50 calls and low for 450 in every 500.
C13_PulseDuty ==
    /\ []((isActive = 1 /\ currentPattern = 4) =>
            /\ pulseCount = nTicks % 500
            /\ pc = "PWR" => (BUZZER = 1 <=> pulseCount < 50))
    /\ [][(IsTick /\ currentPattern = 4) =>
            /\ currentFreqDelay' = currentFreqDelay
            /\ pulseCount' = (pulseCount + 1) % 500
            /\ BUZZER' = 1 <=> pulseCount' < 50]_vars
\* High band, after the counter has wrapped at 500: generate_tone has toggled in
\* this pass (toneCounter back at 0) and BUZZER is high by the pulse counter
C13_Witness ==
    /\ isActive = 1 /\ currentPattern = 4 /\ currentRange = 1 /\ pc = "PWR"
    /\ nTicks = 507 /\ pulseCount = 7 /\ toneCounter = 0 /\ BUZZER = 1

\* C14: in Chirps, a call in the falling sub-state that finds the period at or
\* below min switches to pause; chirpCount counts the calls spent in pause, and
\* the call that makes it 300 sets the period to max and returns to falling,
\* while every earlier call in pause changes neither.
C14_ChirpPause300 ==
    [][(IsTick /\ currentPattern = 9) =>
         /\ (chirpState = 0 /\ currentFreqDelay <= minDelay) =>
                (chirpState' = 1 /\ currentFreqDelay' = currentFreqDelay)
         /\ chirpState = 1 =>
                IF chirpCount + 1 = 300
                THEN chirpState' = 0 /\ currentFreqDelay' = maxDelay
                ELSE chirpState' = 1 /\ currentFreqDelay' = currentFreqDelay]_vars

\* C15: in Random Walk the period changes only on the 20th call counted by
\* walkCount; that call leaves the period in [min, max] whatever it was before,
\* and from a period inside the band the new period is the old one plus a step
\* of -2 .. 2, clamped to the band, so it moves by at most 2.
C15_RandomWalkClamped ==
    [][(IsTick /\ currentPattern = 10) =>
         IF walkCount + 1 < 20
         THEN currentFreqDelay' = currentFreqDelay /\ walkCount' = walkCount + 1
         ELSE /\ walkCount' = 0
              /\ minDelay <= currentFreqDelay' /\ currentFreqDelay' <= maxDelay
              /\ (minDelay <= currentFreqDelay /\ currentFreqDelay <= maxDelay) =>
                    /\ \E d \in -2 .. 2 :
                         LET q == currentFreqDelay + d
                         IN  currentFreqDelay' =
                               (IF q < minDelay THEN minDelay
                                ELSE IF q > maxDelay THEN maxDelay ELSE q)
                    /\ currentFreqDelay' - currentFreqDelay \in -2 .. 2]_vars
\* High band, step 5: the Chirps call wrapped the period to 65534, the operator
\* then selected Random Walk, and its 20th call has clamped the period
C15_Witness ==
    /\ currentPattern = 10 /\ currentRange = 1 /\ currentSpeed = 3 /\ isActive = 1
    /\ nTicks = 21 /\ walkCount = 0 /\ seed # SeedInit
    /\ currentFreqDelay = 18

\* C16: every generate_tone call increments toneCounter and, exactly when the
\* incremented counter has reached the period, resets it to zero and toggles
\* BUZZER and BUZZER_COMP (under Pulse update_sweep then overwrites BUZZER).
\* Hence with the period constant at N (Stepped, left running, before its first
\* step at 100 calls) the counter is the number of calls modulo N and BUZZER has
\* toggled once per N calls.
C16_ToneEveryPeriod ==
    /\ [][IsTick =>
            LET fires == toneCounter + 1 >= currentFreqDelay
            IN  /\ toneCounter' = (IF fires THEN 0 ELSE toneCounter + 1)
                /\ BUZZER_COMP' = (IF fires THEN 1 - BUZZER_COMP ELSE BUZZER_COMP)
                /\ currentPattern # 4 =>
                      BUZZER' = (IF fires THEN 1 - BUZZER ELSE BUZZER)]_vars
    /\ []((isActive = 1 /\ currentPattern = 5 /\ nTicks < 100) =>
            /\ toneCounter = nTicks % currentFreqDelay
            /\ BUZZER = (IF (nTicks \div currentFreqDelay) % 2 = 0 THEN 1 ELSE 0)
            /\ BUZZER_COMP = BUZZER)
\* High band, period 13 throughout: the fourth toggle, on the 52nd call
C16_Witness ==
    /\ isActive = 1 /\ currentPattern = 5 /\ currentRange = 1 /\ currentFreqDelay = 13
    /\ nTicks = 52 /\ toneCounter = 0 /\ BUZZER = 1 /\ pc = "PWR"

\* C17 as stated: every pattern-local counter (pulse, step, heartbeat, siren,
\* chirp and walk counters) advances on every update_sweep call, whichever
\* pattern is selected.
C17_CountersAlwaysAdvance ==
    [][IsTick =>
         /\ pulseCount' # pulseCount /\ stepCount' # stepCount
         /\ hbCount' # hbCount /\ sirenCount' # sirenCount
         /\ chirpCount' # chirpCount /\ walkCount' # walkCount]_vars
\* C17 amended: a pattern-local counter advances on the update_sweep calls made
\* while its own pattern is selected (the chirp counter on those made in the
\* pause sub-state) and keeps its value on every other call: the pulse counter
\* counts modulo 500, the step and siren counters modulo 100, the heartbeat
\* counter modulo 600, the walk counter modulo 20, the chirp counter up to 300
\* and back to 0.
C17_CountersAdvanceInOwnPattern ==
    [][IsTick =>
         /\ pulseCount' = (IF currentPattern = 4 THEN (pulseCount + 1) % 500
                           ELSE pulseCount)
         /\ stepCount' = (IF currentPattern = 5 THEN (stepCount + 1) % 100
                          ELSE stepCount)
         /\ hbCount' = (IF currentPattern = 7 THEN (hbCount + 1) % 600 ELSE hbCount)
         /\ sirenCount' = (IF currentPattern = 8 THEN (sirenCount + 1) % 100
                           ELSE sirenCount)
         /\ chirpCount' = (IF currentPattern = 9 /\ chirpState = 1
                           THEN (chirpCount + 1) % 301 ELSE chirpCount)
         /\ walkCount' = (IF currentPattern = 10 THEN (walkCount + 1) % 20
                          ELSE walkCount)]_vars
\* Random Walk left running: its counter has wrapped twice and is at 5, the
\* other counters are where they started
C17_Witness ==
    /\ isActive = 1 /\ currentPattern = 10 /\ nTicks = 45 /\ walkCount = 5
    /\ pulseCount = 0 /\ stepCount = 0 /\ hbCount = 0 /\ sirenCount = 0
    /\ chirpCount = 0

\* C18: an update_sweep call under pattern p changes no working memory of
\* another pattern (Zig-Zag: sweepDirection; Pulse: pulseCount; Stepped:
\* stepCount; Triangle: freqStep; Heartbeat: hbCount; Siren: sirenCount; Chirps:
\* chirpState and chirpCount; Random Walk: walkCount), and no step of a button
\* poll or of the reaction to a press changes any of it, so a pattern that is
\* reselected finds its memory as it left it.
WorkingMemory ==
    [p \in 0 .. 10 |->
       CASE p = 2 -> <<sweepDirection>>
         [] p = 4 -> <<pulseCount>>
         [] p = 5 -> <<stepCount>>
         [] p = 6 -> <<freqStep>>
         [] p = 7 -> <<hbCount>>
         [] p = 8 -> <<sirenCount>>
         [] p = 9 -> <<chirpState, chirpCount>>
         [] p = 10 -> <<walkCount>>
         [] OTHER -> <<>>]
C18_WorkingMemoryPrivate ==
    [][/\ IsTick => \A p \in 0 .. 10 :
                       p # currentPattern => WorkingMemory'[p] = WorkingMemory[p]
       /\ ~IsTick => WorkingMemory' = WorkingMemory]_vars
\* Pulse made one call, the operator went on to Stepped, which made one call: the
\* pulse counter is still at 1
C18_Witness ==
    /\ isActive = 1 /\ currentPattern = 5 /\ nTicks = 2 /\ stepCount = 1
    /\ pulseCount = 1 /\ pc = "PWR"

\* C19: a timer interrupt (the only step that leaves the main flow where it is)
\* changes nothing but msCount and SPEED_LED (P2.6): not the power state, band,
\* pattern, speed, period, direction, pattern memory, seed, the buttons'
\* lastState, the tone counter or the buzzer pins; and no step of the main flow
\* writes msCount or SPEED_LED, so the main flow's results do not depend on
\* where the interrupts fall.
C19_IsrTouchesOnlyBlink ==
    [][/\ pc' = pc =>
            /\ UNCHANGED <<btnVars, modeVars, sweepVars, toneCounter, BUZZER,
                           BUZZER_COMP, TRIANGLE_LED, nTicks>>
            /\ \A i \in (0 .. 7) \ {6} : P2'[i] = P2[i]
       /\ pc' # pc => (msCount' = msCount /\ P2'[6] = P2[6])]_vars
\* the 100th interrupt has lit SPEED_LED while checkButton_PWR is in its debounce
\* wait, and 50 more have fired since
C19_Witness ==
    /\ pc = "PWR_wait" /\ isActive = 1 /\ P2[6] = 0 /\ msCount = 50 /\ nTicks = 1

\* The pattern indicator pins: P2.0 .. P2.4 carry two names each (lines 16-28),
\* TRIANGLE_LED is P1.5, numbered 5 here.
PatternPin ==
    [p \in 0 .. 10 |->
       CASE p \in {0, 5} -> 0
         [] p \in {1, 7} -> 1
         [] p \in {2, 8} -> 2
         [] p \in {3, 9} -> 3
         [] p \in {4, 10} -> 4
         [] OTHER -> 5]
LitPatternPins ==
    {i \in 0 .. 4 : P2[i] = 0} \cup (IF TRIANGLE_LED = 0 THEN {5} ELSE {})
\* C20: after every updateStatusLEDs call (the pins are written at startup and
\* in the step of every press, and nowhere else), exactly one pattern indicator
\* pin is low, and it is the pin of the current pattern.
C20_OnePatternLedLit == LitPatternPins = {PatternPin[currentPattern]}

\* C21: at the end of every pass of the main loop (control is back at the Power
\* button check; the state after startup counts as the first such point), the
\* complementary output BUZZER_COMP is the logical inverse of BUZZER, under
\* every pattern and after every power transition.
C21_CompIsInverse == pc = "PWR" => BUZZER_COMP = Not(BUZZER)

\* C22: whenever Triangle (pattern 6) is selected and the device is on, and the
\* device is left running with no further presses, the period eventually lies
\* in [min, max] again, and so returns there again and again: it never ends up
\* oscillating outside the band for ever.
C22_TriangleReturnsToBand ==
    [](isActive = 1 /\ currentPattern = 6
         => <>(minDelay <= currentFreqDelay /\ currentFreqDelay <= maxDelay))

====
